---- MODULE Spec2Model ----
(***************************************************************************)
(* json_stream: a producer thread serializes JSON into the write endpoint  *)
(* of a pipe while a tokio task sends the read endpoint, wrapped as a      *)
(* Stream of byte chunks (PipeReaderStream), as the body of a POST.        *)
(*                                                                         *)
(* src/src/main.rs holds PipeReaderStream::poll_next and main.  The pipe   *)
(* itself (crate `pipe`), serde_json's writer loop and reqwest's body      *)
(* driver are not part of the source tree; the pipe is modelled from the   *)
(* contract of the Bounded Byte Conduit in the specification (4.1).        *)
(***************************************************************************)
EXTENDS Integers, Sequences, FiniteSets, TLC

\* ---------------------------------------------------------------- bounds

\* Size of the local read buffer of poll_next.  main.rs:25 sets 64; the model
\* scales it down so that payloads below, at and above one buffer are enumerable.
BUFFER_SIZE == 2

\* Capacity of the conduit, in bytes.
Capacity == 3

\* Longest serialized payload, in bytes.
MaxLen == 7

\* Polls of the stream the transport may still make after the first None.
MaxPollsAfterEnd == 2

\* Reads of the conduit that may fail in one run.
MaxReadErrors == 2

\* ---------------------------------------------------------------- helpers

Min(a, b) == IF a < b THEN a ELSE b

Take(s, n) == SubSeq(s, 1, n)

Drop(s, n) == SubSeq(s, n + 1, Len(s))

IsPrefix(s, t) == Len(s) <= Len(t) /\ s = SubSeq(t, 1, Len(s))

RECURSIVE Concat(_)
Concat(ss) == IF ss = <<>> THEN <<>> ELSE Head(ss) \o Concat(Tail(ss))

\* ---------------------------------------------------------------- state

VARIABLES
    data,       \* the bytes serde_json produces for `data` (main.rs:75-83)
    pos,        \* how many of them the serializer has handed to the writer
    pending,    \* the part of the current write_all not yet accepted by the pipe
    pipe,       \* bytes buffered in the conduit, oldest first
    writer,     \* write endpoint: "none" | "open" | "closed"
    reader,     \* read endpoint (inside PipeReaderStream): "none" | "open" | "dropped"
    write,      \* the producer thread (handle `write`)
    send,       \* the transmitter task (handle `send`)
    main,       \* position of main
    items,      \* the Some(..) items poll_next has yielded, in order
    last,       \* what the latest poll_next returned
    ended,      \* how many times poll_next has returned None
    written     \* every byte the pipe has accepted from the producer, in order

vars == <<data, pos, pending, pipe, writer, reader, write, send, main,
          items, last, ended, written>>

\* The serialized form of a payload of L bytes: L pairwise distinct bytes, so
\* that a lost, duplicated or reordered byte changes the sequence.
Serialized(L) == [i \in 1..L |-> i]

NotPolled == [tag |-> "NotPolled", bytes |-> <<>>]
None == [tag |-> "None", bytes |-> <<>>]
SomeOk(b) == [tag |-> "Ok", bytes |-> b]
SomeErr == [tag |-> "Err", bytes |-> <<>>]

\* Poll::Pending, which poll_next never returns.
Pending == [tag |-> "Pending", bytes |-> <<>>]

\* Results of Read::read(&mut buf): Ok(n) with buf as the read left it, or Err.
ReadOk(n, b) == [ok |-> TRUE, n |-> n, buf |-> b]
ReadErr(b) == [ok |-> FALSE, n |-> 0, buf |-> b]

\* Results of Write::write(bytes): Ok(n), or the broken-pipe Err.
WriteOk(n) == [ok |-> TRUE, n |-> n]
WriteErr == [ok |-> FALSE, n |-> 0]

\* ---------------------------------------------------------------- conduit

\* write(bytes) may return: the peer is gone, or the buffer has room.
CanWrite == reader = "dropped" \/ Len(pipe) < Capacity

\* A conduit that accepts a whole write whatever room is left.
WriteResults_unbounded(bytes) ==
    IF reader = "dropped"
    THEN {WriteErr}
    ELSE {WriteOk(k) : k \in 1..Len(bytes)}

\* A conduit that keeps accepting bytes after the read endpoint is dropped.
WriteResults_no_broken_pipe(bytes) ==
    {WriteOk(k) : k \in 1..Min(Len(bytes), Capacity - Len(pipe))}

\* The results a write of `bytes` may return: the broken-pipe failure once the
\* read endpoint is dropped, else a count of at least one byte and at most the
\* room left (partial writes are permitted).
WriteResults(bytes) ==
    IF reader = "dropped"
    THEN {WriteErr}
    ELSE {WriteOk(k) : k \in 1..Min(Len(bytes), Capacity - Len(pipe))}

\* read(buf) may return: a byte is available, or the write side is closed.
CanRead == pipe # <<>> \/ writer = "closed"

\* The results a read into the buffer b may return: the first n buffered bytes
\* are copied over the first n bytes of b (a read may be short), and a read of
\* a drained, closed pipe returns 0.
ReadResults(b) ==
    IF pipe = <<>>
    THEN {ReadOk(0, b)}
    ELSE {ReadOk(n, Take(pipe, n) \o Drop(b, n)) : n \in 1..Min(Len(pipe), Len(b))}

\* The result of a read into the buffer b when the underlying mechanism fails:
\* an error, with b and the buffered bytes left as they were.
ReadFailures(b) == {ReadErr(b)}

\* ---------------------------------------------------------------- adapter

\* A local buffer of twice the intended size.
buf_double == [i \in 1..(2 * BUFFER_SIZE) |-> 0]

\* let mut buf = [0; BUFFER_SIZE]
buf == [i \in 1..BUFFER_SIZE |-> 0]

\* poll_next yielding the whole buffer, buf.to_vec(), instead of buf[..n].
poll_next_whole_buf(r) ==
    IF r.ok
    THEN IF r.n = 0 THEN None ELSE SomeOk(r.buf)
    ELSE SomeErr

\* poll_next taking a short read (n < BUFFER_SIZE) for the end of the stream.
poll_next_short_is_end(r) ==
    IF r.ok
    THEN IF r.n < BUFFER_SIZE THEN None ELSE SomeOk(Take(r.buf, r.n))
    ELSE SomeErr

\* poll_next reporting an error when it is polled again after it returned None.
poll_next_err_after_end(r) ==
    IF r.ok
    THEN IF r.n = 0
         THEN IF ended > 0 THEN SomeErr ELSE None
         ELSE SomeOk(Take(r.buf, r.n))
    ELSE SomeErr

\* poll_next answering Poll::Pending to a read of 0 bytes, as if more could come.
poll_next_pending_on_zero(r) ==
    IF r.ok
    THEN IF r.n = 0 THEN Pending ELSE SomeOk(Take(r.buf, r.n))
    ELSE SomeErr

\* poll_next cutting the chunk one byte short, buf[..n - 1].
poll_next_off_by_one(r) ==
    IF r.ok
    THEN IF r.n = 0 THEN None ELSE SomeOk(Take(r.buf, r.n - 1))
    ELSE SomeErr

\* PipeReaderStream::poll_next, as a function of what self.inner.read(&mut buf)
\* returned.
poll_next(r) ==
    IF r.ok
    THEN IF r.n = 0 THEN None ELSE SomeOk(Take(r.buf, r.n))
    ELSE SomeErr

\* ---------------------------------------------------------------- main

Init ==
    /\ data \in {Serialized(L) : L \in 1..MaxLen}
    /\ pos = 0
    /\ pending = <<>>
    /\ pipe = <<>>
    /\ writer = "none"
    /\ reader = "none"
    /\ write = "unspawned"
    /\ send = "unspawned"
    /\ main = "idle"
    /\ items = <<>>
    /\ last = NotPolled
    /\ ended = 0
    /\ written = <<>>

\* main.rs:68-69
pipe_buffered ==
    /\ main = "idle"
    /\ main' = "piped"
    /\ writer' = "open"
    /\ reader' = "open"
    /\ UNCHANGED <<data, pos, pending, pipe, write, send, items, last, ended, written>>

\* main.rs:85
spawn_write ==
    /\ main = "piped"
    /\ main' = "writing"
    /\ write' = "serializing"
    /\ UNCHANGED <<data, pos, pending, pipe, writer, reader, send, items, last, ended, written>>

\* main.rs:89
spawn_send ==
    /\ main = "writing"
    /\ main' = "streaming"
    /\ send' = "sending"
    /\ UNCHANGED <<data, pos, pending, pipe, writer, reader, write, items, last, ended, written>>

\* main.rs:102
join ==
    /\ main = "streaming"
    /\ write \in {"finished", "panicked"}
    /\ main' = IF write = "finished" THEN "joined" ELSE "panicked_join"
    /\ UNCHANGED <<data, pos, pending, pipe, writer, reader, write, send, items, last, ended, written>>

\* main returning without waiting for the task to finish (a dropped .await).
await_send_no_wait ==
    /\ main = "joined"
    /\ main' = IF send = "err" THEN "panicked_await" ELSE "completed"
    /\ UNCHANGED <<data, pos, pending, pipe, writer, reader, write, send, items, last, ended, written>>

\* main discarding the task's result (let _ = send.await).
await_send_swallow ==
    /\ main = "joined"
    /\ send \in {"ok", "err"}
    /\ main' = "completed"
    /\ UNCHANGED <<data, pos, pending, pipe, writer, reader, write, send, items, last, ended, written>>

\* main.rs:104
await_send ==
    /\ main = "joined"
    /\ send \in {"ok", "err"}
    /\ main' = IF send = "ok" THEN "completed" ELSE "panicked_await"
    /\ UNCHANGED <<data, pos, pending, pipe, writer, reader, write, send, items, last, ended, written>>

\* ---------------------------------------------------------------- producer

\* serde_json hands the next m bytes of its output to the writer (write_all).
serialize(m) ==
    /\ write = "serializing"
    /\ pos + m <= Len(data)
    /\ pending' = SubSeq(data, pos + 1, pos + m)
    /\ pos' = pos + m
    /\ write' = "inwrite"
    /\ UNCHANGED <<data, pipe, writer, reader, send, main, items, last, ended, written>>

\* A producer that calls write once and does not retry a partial write.
write_all_no_retry(res) ==
    /\ write = "inwrite"
    /\ CanWrite
    /\ res \in WriteResults(pending)
    /\ pipe' = pipe \o Take(pending, res.n)
    /\ written' = written \o Take(pending, res.n)
    /\ pending' = IF res.ok THEN <<>> ELSE pending
    /\ writer' = IF res.ok THEN writer ELSE "closed"
    /\ write' = IF res.ok THEN "serializing" ELSE "panicked"
    /\ UNCHANGED <<data, pos, reader, send, main, items, last, ended>>

\* One write call of the serializer's write_all returns.  Ok(n): the pipe took
\* the first n pending bytes, and write_all calls write again for what is
\* left.  Err: to_writer returns Err, dropping the writer it owned, and the
\* unwrap of main.rs:86 panics the thread.
write_all(res) ==
    /\ write = "inwrite"
    /\ CanWrite
    /\ res \in WriteResults(pending)
    /\ pipe' = pipe \o Take(pending, res.n)
    /\ written' = written \o Take(pending, res.n)
    /\ pending' = Drop(pending, res.n)
    /\ writer' = IF res.ok THEN writer ELSE "closed"
    /\ write' = IF ~res.ok THEN "panicked"
                 ELSE IF res.n = Len(pending) THEN "serializing" ELSE "inwrite"
    /\ UNCHANGED <<data, pos, reader, send, main, items, last, ended>>

\* to_writer returning while the writer stays alive (to_writer(&mut writer, ..)
\* with the writer kept by someone else).
to_writer_ok_keeps_writer ==
    /\ write = "serializing"
    /\ pos = Len(data)
    /\ write' = "finished"
    /\ UNCHANGED <<data, pos, pending, pipe, writer, reader, send, main, items, last, ended, written>>

\* A producer closure that owns both endpoints and drops them together.
to_writer_ok_drops_reader ==
    /\ write = "serializing"
    /\ pos = Len(data)
    /\ writer' = "closed"
    /\ reader' = "dropped"
    /\ write' = "finished"
    /\ UNCHANGED <<data, pos, pending, pipe, send, main, items, last, ended, written>>

\* to_writer returns Ok(()): the writer it owned is dropped, the thread ends.
to_writer_ok ==
    /\ write = "serializing"
    /\ pos = Len(data)
    /\ writer' = "closed"
    /\ write' = "finished"
    /\ UNCHANGED <<data, pos, pending, pipe, reader, send, main, items, last, ended, written>>

\* ---------------------------------------------------------------- transmitter

\* The request task polled on main's own thread (a current_thread runtime): it
\* runs only while main is suspended in send.await.
poll_current_thread(r) ==
    /\ main = "joined"
    /\ send = "sending"
    /\ reader = "open"
    /\ ended <= MaxPollsAfterEnd
    /\ CanRead
    /\ last' = poll_next(r)
    /\ pipe' = Drop(pipe, r.n)
    /\ items' = IF poll_next(r) = None THEN items ELSE Append(items, poll_next(r))
    /\ ended' = IF poll_next(r) = None THEN ended + 1 ELSE ended
    /\ UNCHANGED <<data, pos, pending, writer, reader, write, send, main, written>>

\* The transport demands the next item of the body: one poll_next, one read.
\* The task runs on a worker thread of the runtime (#[tokio::main], main.rs:66),
\* whatever main is doing.
poll(r) ==
    /\ send = "sending"
    /\ reader = "open"
    /\ ended <= MaxPollsAfterEnd
    /\ CanRead
    /\ last' = poll_next(r)
    /\ pipe' = Drop(pipe, r.n)
    /\ items' = IF poll_next(r) = None THEN items ELSE Append(items, poll_next(r))
    /\ ended' = IF poll_next(r) = None THEN ended + 1 ELSE ended
    /\ UNCHANGED <<data, pos, pending, writer, reader, write, send, main, written>>

\* The request fails (refused, reset): the body, and with it the reader, is dropped.
transport_failure ==
    /\ send = "sending"
    /\ send' = "err"
    /\ reader' = "dropped"
    /\ UNCHANGED <<data, pos, pending, pipe, writer, write, main, items, last, ended, written>>

\* A transmitter that issues the request again after a failure and takes the
\* answer to the second attempt for its outcome.
response_after_retry ==
    /\ send \in {"sending", "err"}
    /\ ended > 0
    /\ send' = "ok"
    /\ reader' = "dropped"
    /\ UNCHANGED <<data, pos, pending, pipe, writer, write, main, items, last, ended, written>>

\* The body has ended and the response arrives: send() resolves to Ok.
response ==
    /\ send = "sending"
    /\ ended > 0
    /\ send' = "ok"
    /\ reader' = "dropped"
    /\ UNCHANGED <<data, pos, pending, pipe, writer, write, main, items, last, ended, written>>

Next ==
    \/ pipe_buffered
    \/ spawn_write
    \/ spawn_send
    \/ join
    \/ await_send
    \/ \E m \in 1..MaxLen : serialize(m)
    \/ \E res \in WriteResults(pending) : write_all(res)
    \/ to_writer_ok
    \/ \E r \in ReadResults(buf) : poll(r)
    \/ transport_failure
    \/ response

Spec == Init /\ [][Next]_vars

\* The error items yielded so far.
ErrCount == Cardinality({i \in 1..Len(items) : items[i].tag = "Err"})

\* The transport demands the next item and the read of the conduit fails:
\* poll_next returns without having taken a byte.
poll_failed(r) ==
    /\ send = "sending"
    /\ reader = "open"
    /\ ErrCount < MaxReadErrors
    /\ last' = poll_next(r)
    /\ pipe' = Drop(pipe, r.n)
    /\ items' = IF poll_next(r) = None THEN items ELSE Append(items, poll_next(r))
    /\ ended' = IF poll_next(r) = None THEN ended + 1 ELSE ended
    /\ UNCHANGED <<data, pos, pending, writer, reader, write, send, main, written>>

\* The program with a conduit whose reads may fail.
NextFault ==
    \/ Next
    \/ \E r \in ReadFailures(buf) : poll_failed(r)

SpecFault == Init /\ [][NextFault]_vars

\* The producer is an OS thread and main runs on its own thread: a step of
\* either that stays possible is eventually taken.  The tokio worker polls the
\* request as long as the transport asks for the next chunk.  Nothing obliges
\* the peer to answer or the transport to fail.
ProducerStep ==
    \/ \E m \in 1..MaxLen : serialize(m)
    \/ \E res \in WriteResults(pending) : write_all(res)
    \/ to_writer_ok

MainStep == pipe_buffered \/ spawn_write \/ spawn_send \/ join \/ await_send

PollStep == \E r \in ReadResults(buf) : poll(r)

FairSpec ==
    /\ Spec
    /\ WF_vars(ProducerStep)
    /\ WF_vars(MainStep)
    /\ WF_vars(PollStep)

\* The runs in which the transport does not fail: it keeps pulling chunks, and
\* the peer answers once the body has ended.
NextLive ==
    \/ MainStep
    \/ ProducerStep
    \/ PollStep
    \/ response

LiveSpec ==
    /\ Init
    /\ [][NextLive]_vars
    /\ WF_vars(ProducerStep)
    /\ WF_vars(MainStep)
    /\ WF_vars(PollStep)
    /\ WF_vars(response)

\* ---------------------------------------------------------------- properties

\* The data chunks yielded so far, and their concatenation.
Chunks == [i \in 1..Len(items) |-> items[i].bytes]

Received == Concat(Chunks)

PollEnabled == ENABLED (\E r \in ReadResults(buf) : poll(r))

\* C1 (ordering): the concatenation of the chunks yielded so far is a prefix of
\* the bytes the producer has written so far into the write endpoint.
C1_Ordering == IsPrefix(Received, written)

C1_Witness ==
    /\ Len(items) >= 2
    /\ Len(items[1].bytes) # Len(items[2].bytes)
    /\ Len(Received) < Len(written)
    /\ write = "inwrite"

\* C3 (adapter totality): when poll_next has yielded None, the chunks yielded,
\* concatenated in order, are exactly the serialized payload, whether it is
\* shorter than, as long as, or longer than the conduit's capacity.
C3_Totality == ended > 0 => Received = data

C3_Witness ==
    /\ ended > 0
    /\ Len(data) > Capacity
    /\ Received = data
    /\ Len(items) > 2

\* C4 (end-of-stream timing): poll_next has yielded None only if the write
\* endpoint is closed and every written byte has been yielded; and while the
\* write endpoint is open and the pipe is empty no poll_next can return.
C4_EndOnlyAfterCloseAndDrain ==
    /\ ended > 0 => writer = "closed" /\ pipe = <<>> /\ Received = written
    /\ writer # "closed" /\ pipe = <<>> => ~PollEnabled

C4_Witness ==
    /\ ended = 1
    /\ last = None
    /\ Len(items) >= 2

\* C5 (idempotent end-of-stream): once poll_next has yielded None, every later
\* poll_next yields None again: no step adds an item or returns anything else.
C5_EndIsStable == [][ended > 0 => items' = items /\ last' = None]_vars

C5_Witness == ended >= 2 /\ last = None /\ send = "sending"

\* C2 (backpressure): the bytes written and not yet read never exceed the
\* conduit's capacity, and a write in flight while the pipe is full and the
\* reader alive does not return in that step: it accepts nothing.
C2_Backpressure ==
    /\ [](Len(pipe) <= Capacity /\ Len(written) - Len(Received) <= Capacity)
    /\ [][(write = "inwrite" /\ Len(pipe) >= Capacity /\ reader # "dropped")
            => (write' = "inwrite" /\ written' = written /\ pending' = pending)]_vars

C2_Witness ==
    /\ write = "inwrite"
    /\ Len(pipe) = Capacity
    /\ reader = "open"
    /\ Len(items) >= 1

\* C6 (cancellation propagation): once the reader is dropped the pipe accepts
\* no byte, a write in flight can only return the broken-pipe failure, and a
\* producer that has not returned eventually does.
C6_Cancellation ==
    /\ [][reader = "dropped"
            => /\ written' = written
               /\ (write = "inwrite" /\ write' # "inwrite" => write' = "panicked")]_vars
    /\ (reader = "dropped" /\ write \in {"serializing", "inwrite"})
           ~> (write \in {"finished", "panicked"})

C6_Witness ==
    /\ write = "panicked"
    /\ reader = "dropped"
    /\ Len(written) = Capacity
    /\ items = <<>>

ProducerReturned == write \in {"finished", "panicked"}

\* C7 as stated: the writer is closed once the producer has returned, on
\* success and on failure, and after the close poll_next eventually yields None.
C7_Original ==
    /\ [](ProducerReturned => writer = "closed")
    /\ (writer = "closed") ~> (ended > 0)

\* C7 (close on producer exit), amended: the writer is closed exactly when the
\* producer has returned, on success and on failure, and after the close
\* poll_next eventually yields None unless the adapter is dropped.
C7_CloseThenEnd ==
    /\ [](ProducerReturned <=> writer = "closed")
    /\ (writer = "closed") ~> (ended > 0 \/ reader = "dropped")

C7_Witness ==
    /\ write = "finished"
    /\ writer = "closed"
    /\ ended > 0
    /\ reader = "open"

\* Sizes of the chunks yielded so far.
Sizes == [i \in 1..Len(items) |-> Len(items[i].bytes)]

\* The largest chunk one read can return.
ChunkMax == Min(BUFFER_SIZE, Capacity)

\* L bytes cut into full chunks of c bytes followed by the remainder.
FullThenRemainder(L, c) ==
    [i \in 1..((L + c - 1) \div c) |-> IF i * c <= L THEN c ELSE L - (i - 1) * c]

\* C8 as stated: at the end of the stream the chunks are full chunks followed
\* by one chunk with the remainder, under every interleaving.
C8_Original == ended > 0 => Sizes = FullThenRemainder(Len(data), ChunkMax)

\* C8 (chunk boundaries), amended: at the end of the stream every chunk has
\* between 1 and ChunkMax bytes and the sizes add up to the payload's length,
\* so there are at least as many chunks as full-then-remainder has.
C8_ChunkBoundaries ==
    ended > 0 =>
        /\ \A i \in 1..Len(Sizes) : Sizes[i] >= 1 /\ Sizes[i] <= ChunkMax
        /\ Len(Received) = Len(data)
        /\ Len(Sizes) >= Len(FullThenRemainder(Len(data), ChunkMax))

\* The split the claim names is one of the reachable ones: three full chunks
\* and a remainder.
C8_Witness ==
    /\ ended > 0
    /\ Len(data) > 3 * ChunkMax
    /\ Len(Sizes) = 4
    /\ Sizes = FullThenRemainder(Len(data), ChunkMax)

Phase ==
    CASE main \in {"idle", "piped"} -> "Idle"
      [] main \in {"writing", "streaming", "joined"} -> "Streaming"
      [] main = "completed" -> "Completed"
      [] OTHER -> "Aborted"

\* C9 (completion ordering): the phases are entered in the order Idle,
\* Streaming, Completed; main completes only from the joined state with the
\* transmitter finished, and reaches the joined state only with the producer
\* finished; in Completed neither task is still running.
C9_CompletionOrdering ==
    /\ [](main = "completed" => write = "finished" /\ send = "ok")
    /\ [][/\ Phase' # Phase =>
                <<Phase, Phase'>> \in {<<"Idle", "Streaming">>,
                                       <<"Streaming", "Completed">>,
                                       <<"Streaming", "Aborted">>}
           /\ (main' = "joined" /\ main # "joined" => write = "finished")
           /\ (main' = "completed" /\ main # "completed" =>
                    main = "joined" /\ send = "ok")]_vars

C9_Witness ==
    /\ main = "completed"
    /\ Len(data) > Capacity

\* The task outcomes main has observed at its current position.
Observed ==
    CASE main \in {"joined", "panicked_join"} -> {"write"}
      [] main \in {"completed", "panicked_await"} -> {"write", "send"}
      [] OTHER -> {}

MainEnded == main \in {"completed", "panicked_join", "panicked_await"}

\* C10 (failure reporting): when main has ended, it has observed the outcome
\* of every task that failed: a producer failure through the join, and then
\* also the transmitter's outcome through the await.
C10_FailuresObserved ==
    MainEnded =>
        /\ (write = "panicked" => "write" \in Observed /\ "send" \in Observed)
        /\ (send = "err" => "send" \in Observed)

\* C11 (error item then exhaustion): an error item is the last item of the
\* sequence: once poll_next has yielded one, no later poll_next yields a data
\* chunk or another error item.
C11_ErrorThenExhausted ==
    \A i \in 1..Len(items) : items[i].tag = "Err" => i = Len(items)

SendEnded == send \in {"ok", "err"}

\* C12 (single transmission, single outcome): the request is issued once, from
\* the spawn; its outcome, once surfaced, never changes; and after the outcome
\* no item is pulled from the adapter and no byte is taken from the pipe.
C12_SingleOutcome ==
    [][/\ (send' = "sending" /\ send # "sending" => send = "unspawned")
       /\ (SendEnded =>
              /\ send' = send
              /\ items' = items /\ last' = last /\ ended' = ended
              /\ pipe' = pipe)]_vars

C12_Witness ==
    /\ send = "err"
    /\ Len(items) >= 1
    /\ ended > 0
    /\ main = "panicked_await"

\* C13 (chunk size bounds): every data chunk yielded has at least 1 and at most
\* BUFFER_SIZE bytes, and the chunk a poll yields is exactly the bytes that its
\* one read took from the front of the pipe.
C13_ChunkSizes ==
    /\ [](\A i \in 1..Len(items) :
            items[i].tag = "Ok" =>
                Len(items[i].bytes) >= 1 /\ Len(items[i].bytes) <= BUFFER_SIZE)
    /\ [][Len(items') > Len(items) /\ last'.tag = "Ok"
            => /\ items' = Append(items, last')
               /\ pipe = last'.bytes \o pipe'
               /\ \A j \in 1..Len(last'.bytes) : last'.bytes[j] # 0]_vars

C13_Witness ==
    /\ Len(items) >= 2
    /\ Len(items[1].bytes) = 1
    /\ Len(items[2].bytes) = BUFFER_SIZE
    /\ Len(pipe) >= 1

\* A step in which poll_next returned.
Polled == last' # last \/ items' # items \/ ended' # ended

\* C14 (non-suspending poll): every poll_next returns a ready result, a chunk,
\* an error item or the end of the sequence, never Pending, and does one read:
\* a chunk is what left the pipe in that step, and an error or the end leaves
\* the pipe as it was.
C14_AlwaysReady ==
    [][Polled =>
         /\ last'.tag \in {"Ok", "Err", "None"}
         /\ pipe = (IF last'.tag = "Ok" THEN last'.bytes ELSE <<>>) \o pipe'
         /\ (last'.tag = "None" <=> ended' = ended + 1)
         /\ (last'.tag # "None" <=> items' = Append(items, last'))]_vars

C14_Witness ==
    /\ ended > 0
    /\ ErrCount >= 1
    /\ \E i \in 1..Len(items) : items[i].tag = "Ok"

\* The producer waits for room in the pipe.
ProducerBlocked == write = "inwrite" /\ ~CanWrite

\* The consumer waits for data in the pipe.
ConsumerBlocked == send = "sending" /\ reader = "open" /\ ~CanRead

C16_TransmitterFailureObserved ==
    /\ [](main = "completed" => send = "ok")
    /\ [][main = "joined" /\ send = "err" /\ main' # main
            => main' = "panicked_await"]_vars
    /\ (write = "finished" /\ send = "err") ~> (main = "panicked_await")

C16_Witness ==
    /\ main = "panicked_await"
    /\ write = "finished"
    /\ send = "err"
    /\ Received = data

\* C17 (isolation through the conduit): a producer step leaves the read
\* endpoint, the yielded items, the transmitter and main as they were; a poll
\* of the adapter leaves the write endpoint, the producer and its pending
\* bytes, the transmitter's outcome and main as they were; either changes,
\* of what the other reads, the pipe (and the writer's status) only.
C17_Isolation ==
    /\ [][ProducerStep =>
             UNCHANGED <<data, reader, send, main, items, last, ended>>]_vars
    /\ [][PollStep =>
             UNCHANGED <<data, writer, write, pos, pending, written, reader, send, main>>]_vars

C17_Witness ==
    /\ Len(items) >= 2
    /\ write = "inwrite"
    /\ Len(pipe) >= 1
    /\ reader = "open"

====
